---- MODULE Spec2Model ----
(***************************************************************************)
(* Model of app.py, the "What Else Can This Be?" Streamlit improv game.    *)
(*                                                                         *)
(* Streamlit executes the whole script once per interaction of a browser   *)
(* session.  One execution of the script ("a run") is one step of the      *)
(* model.  The state is what survives between runs: the process            *)
(* environment (credential sources, the image directory), the session's    *)
(* st.session_state, what the last run left on the page (last_run), and    *)
(* whether st.rerun() has queued an immediate re-execution.                *)
(***************************************************************************)
EXTENDS Integers, Sequences, FiniteSets, TLC

VARIABLES
    secrets,         \* st.secrets.get("OPENAI_API_KEY", None)
    environ,         \* os.environ.get("OPENAI_API_KEY", None)
    dir_exists,      \* IMAGE_DIR.exists()
    files,           \* names of the files in IMAGE_DIR
    case_sensitive,  \* whether Path.glob matches names case-sensitively
    session_state,   \* st.session_state: a function from the keys set so far
    last_run,        \* what the last run of the script did and left on the page
    rerun,           \* st.rerun() was called: the runtime re-executes at once
    widget,          \* the recorder component: its key, its last recording
    spoken,          \* per round: speak_text calls in this play-through
    shown,           \* rounds whose round view was rendered in this play-through
    successes        \* submissions stored since the session start or last reset

env  == <<secrets, environ, dir_exists, files, case_sensitive>>
vars == <<secrets, environ, dir_exists, files, case_sensitive,
          session_state, last_run, rerun, widget, spoken, shown, successes>>

-----------------------------------------------------------------------------
(* Bounds *)

MaxPad   == 1   \* whitespace characters the service may add on either side
MaxSpeak == 2   \* the per-round speech counter saturates here
MaxFiles == 3   \* files in the image directory (the example directory apart)
MaxCalls == 2   \* the per-recording transcription counter saturates here

-----------------------------------------------------------------------------
(* Config (app.py lines 15-22) *)

ROUNDS == 3

\* None where a record may stand (last_transcript)
None == <<>>

\* None where a string may stand
NoString == "None"

\* Variant: the empty string taken for a credential.
Truthy_empty(v) == v # NoString

\* Python truthiness of an optional string: None and "" are falsy.
Truthy(v) == v # NoString /\ v # ""

KeyValues(k) == {NoString, "", k}

\* Variant: the environment consulted before the secret store.
api_key_env_first == IF Truthy(environ) THEN environ ELSE secrets

\* openai.api_key = st.secrets.get(...) or os.environ.get(...)
api_key == IF Truthy(secrets) THEN secrets ELSE environ

-----------------------------------------------------------------------------
(* Sequences helpers *)

Range(s) == {s[i] : i \in 1..Len(s)}

RECURSIVE SeqsUpTo(_, _)
SeqsUpTo(S, n) ==
    IF n = 0 THEN {<<>>}
    ELSE LET shorter == SeqsUpTo(S, n - 1)
         IN  shorter \cup {Append(s, c) : s \in shorter, c \in S}

-----------------------------------------------------------------------------
(* The image directory *)

\* The file names the directory may hold, in the order sorted() gives paths.
FileOrder ==
    <<"a.png", "avatar.png", "b.png", "c.PNG", "d.Png", "e.Png", "notes.txt">>

FileNames == Range(FileOrder)

Suffix == [n \in FileNames |->
             CASE n = "c.PNG"     -> "PNG"
               [] n \in {"d.Png", "e.Png"} -> "Png"
               [] n = "notes.txt" -> "txt"
               [] OTHER           -> "png"]

Lower(ext) == IF ext \in {"png", "PNG", "Png"} THEN "png" ELSE ext

\* What PIL's Image.open(path) / im.verify() does with each file.
Decode == [n \in FileNames |->
             IF n \in {"b.png", "e.Png", "notes.txt"}
             THEN "UnidentifiedImageError" ELSE "ok"]

\* The directories of the model.
\* The directory of the specification's example, with the avatar.
ExampleDir == {"a.png", "b.png", "c.PNG", "avatar.png"}

Directories ==
    {F \in SUBSET FileNames : Cardinality(F) <= MaxFiles} \cup {ExampleDir}

\* image_dir.glob("*." + ext) in the directory holding the files F: the
\* names the pattern matches, in directory order.  pathlib matches
\* case-sensitively on POSIX (cs) and case-insensitively on Windows.
glob(F, cs, ext) ==
    SelectSeq(FileOrder,
              LAMBDA n : /\ n \in F
                         /\ IF cs THEN Suffix[n] = ext
                                  ELSE Lower(Suffix[n]) = Lower(ext))

Rank == [n \in FileNames |-> CHOOSE i \in 1..Len(FileOrder) : FileOrder[i] = n]

\* How many entries of s sort strictly before n, and how many equal n
Below(s, n) == Cardinality({i \in DOMAIN s : Rank[s[i]] < Rank[n]})

Count(s, n) == Cardinality({i \in DOMAIN s : s[i] = n})

\* sorted(...): position k holds the entry whose block of equal entries covers k
sorted(s) ==
    LET lo == [n \in Range(s) |-> Below(s, n)]
        hi == [n \in Range(s) |-> lo[n] + Count(s, n)]
    IN  [k \in 1..Len(s) |-> CHOOSE n \in Range(s) : lo[n] < k /\ k <= hi[n]]

\* def list_candidate_images(image_dir)
list_candidate_images(F, cs) == sorted(glob(F, cs, "png") \o glob(F, cs, "PNG"))

\* def is_valid_image(path)
is_valid_image(p) ==
    CASE Decode[p] = "ok" -> TRUE
      [] Decode[p] \in {"UnidentifiedImageError", "OSError"} -> FALSE

\* The two lists of every directory; @@ <<>> has TLC tabulate them once.
Listing ==
    [F \in Directories, cs \in BOOLEAN |-> list_candidate_images(F, cs)] @@ <<>>

Decoding ==
    [F \in Directories, cs \in BOOLEAN |-> SelectSeq(Listing[F, cs], is_valid_image)] @@ <<>>

\* candidates = list_candidate_images(IMAGE_DIR) (line 43)
candidates == Listing[files, case_sensitive]

\* valid_images = [p for p in candidates if is_valid_image(p)] (line 44)
valid_images == Decoding[files, case_sensitive]

\* def pick_random_image(): the values random.choice(valid_images) may return
pick_random_image == Range(valid_images)

AVATAR == "avatar.png"

\* Image.open(IMAGE_DIR / "avatar.png") returns instead of raising
avatar_opens == AVATAR \in files /\ Decode[AVATAR] = "ok"

-----------------------------------------------------------------------------
(* Helpers (app.py lines 61-85) *)

Whitespace == {" "}

RECURSIVE lstrip(_)
lstrip(s) == IF s # <<>> /\ Head(s) \in Whitespace THEN lstrip(Tail(s)) ELSE s

RECURSIVE rstrip(_)
rstrip(s) ==
    IF s # <<>> /\ s[Len(s)] \in Whitespace
    THEN rstrip(SubSeq(s, 1, Len(s) - 1)) ELSE s

\* Variant: only the leading whitespace removed.
strip_leading(s) == lstrip(s)

\* str.strip()
strip(s) == rstrip(lstrip(s))

\* The transcripts of the end-to-end scenario, as character sequences.
A_HAT       == <<"a", " ", "h", "a", "t">>
A_BOAT      == <<"a", " ", "b", "o", "a", "t">>
A_TELESCOPE == <<"a", " ", "t", "e", "l", "e", "s", "c", "o", "p", "e">>

Words == {<<>>, A_HAT, A_BOAT, A_TELESCOPE}

Pads == SeqsUpTo(Whitespace, MaxPad)

\* The texts the transcription service may return.
Texts == {l \o w \o r : l \in Pads, w \in Words, r \in Pads}

\* What openai.Audio.transcribe may do: raise, return a dict with a "text",
\* return a dict without one, or return something that is not a dict.
Results ==
    {[kind |-> "raise", text |-> <<>>], [kind |-> "no_text", text |-> <<>>],
     [kind |-> "not_dict", text |-> <<>>]}
    \cup {[kind |-> "dict", text |-> t] : t \in Texts}

NoResult == [kind |-> "none", text |-> <<>>]

\* def transcribe_wav_bytes(wav_bytes), for a call that returns
transcribe_wav_bytes(result) ==
    IF result.kind = "dict" THEN result.text ELSE <<>>

\* def get_prompt_text(round_num)
BASE_PROMPT == "What else can this be?"
NEXT_PROMPT == "Great job! What else can this be?"

\* Variant: the base prompt in every round.
get_prompt_text_base(round_num) == BASE_PROMPT

get_prompt_text(round_num) ==
    IF round_num = 1 THEN BASE_PROMPT ELSE NEXT_PROMPT

-----------------------------------------------------------------------------
(* What the recording widget hands to the script *)

NoAudio    == [dict |-> FALSE, bytes |-> <<>>]
EmptyAudio == [dict |-> TRUE, bytes |-> <<>>]
WavAudio   == [dict |-> TRUE, bytes |-> <<82, 73, 70, 70>>]

\* Variant: a capture without bytes taken for a submission.
has_bytes_any(audio) == audio.dict

\* audio and isinstance(audio, dict) and audio.get("bytes")
has_bytes(audio) == audio.dict /\ audio.bytes # <<>>

\* The recorder component before any recording: key is the round of the
\* key "mic_round_<round>" it was rendered under, fresh tells that its
\* recording has not been handed to the script yet, calls counts the
\* transcriptions of that recording.
NoWidget == [key |-> 0, audio |-> NoAudio, fresh |-> FALSE, calls |-> 0]

\* The component right after the user stopped a recording under the key of
\* round r.
Recorded(r, audio) == [key |-> r, audio |-> audio, fresh |-> TRUE, calls |-> 0]

\* Variant: just_once=False, the last recording returned on every run.
mic_recorder_every_run(w, r) ==
    IF w.key = r THEN w.audio ELSE NoAudio

\* mic_recorder(..., just_once=True, key=f"mic_round_{round}") (lines 154-159):
\* the recording of the component of this key, on the first run after it
\* was made and on no later one.
mic_recorder(w, r) ==
    IF w.key = r /\ w.fresh THEN w.audio ELSE NoAudio

-----------------------------------------------------------------------------
(* Session state (app.py lines 90-103) *)

Keys == {"round", "responses", "spoken_round", "last_transcript",
         "selected_image_path"}

\* Variant: the image picked anew in every run.
session_defaults_repick(ss, img) ==
    [selected_image_path |-> img] @@ ss @@
    [round |-> 1, responses |-> <<>>, spoken_round |-> 0,
     last_transcript |-> None]

\* The "if key not in st.session_state" defaults; img is the image
\* pick_random_image() returns if it is called.
session_defaults(ss, img) ==
    ss @@ [round |-> 1, responses |-> <<>>, spoken_round |-> 0,
           last_transcript |-> None, selected_image_path |-> img]

\* Variant: Start Over that leaves last_transcript in place.
start_over_keeps_transcript(ss, img) ==
    [ss EXCEPT !.round = 1, !.responses = <<>>, !.spoken_round = 0,
               !.selected_image_path = img]

\* Variant: Start Over that keeps the collected responses.
start_over_keeps_responses(ss, img) ==
    [ss EXCEPT !.round = 1, !.spoken_round = 0,
               !.last_transcript = None, !.selected_image_path = img]

\* The Start Over assignments (lines 126-130)
start_over(ss, img) ==
    [ss EXCEPT !.round = 1, !.responses = <<>>, !.spoken_round = 0,
               !.last_transcript = None, !.selected_image_path = img]

\* Variant: the response stored without advancing the round.
commit_no_advance(ss, text) ==
    [ss EXCEPT !.last_transcript = [round |-> ss.round, text |-> text],
               !.responses = Append(ss.responses,
                                    [round |-> ss.round, response |-> text])]

\* Variant: the round advanced before the response is stored.
commit_round_first(ss, text) ==
    [ss EXCEPT !.round = ss.round + 1,
               !.last_transcript = [round |-> ss.round + 1, text |-> text],
               !.responses = Append(ss.responses,
                                    [round |-> ss.round + 1, response |-> text])]

\* Variant: the new response put in place of the ones before it.
commit_replaces(ss, text) ==
    [ss EXCEPT !.last_transcript = [round |-> ss.round, text |-> text],
               !.responses = <<[round |-> ss.round, response |-> text]>>,
               !.round = ss.round + 1]

\* The assignments of a successful transcription (lines 191-194)
commit(ss, text) ==
    [ss EXCEPT !.last_transcript = [round |-> ss.round, text |-> text],
               !.responses = Append(ss.responses,
                                    [round |-> ss.round, response |-> text]),
               !.round = ss.round + 1]

\* Variant: the end screen one round early.
finished_early(ss) == ss.round >= ROUNDS

\* Variant: the end screen one round late.
finished_late(ss) == ss.round > ROUNDS + 1

\* if st.session_state.round > ROUNDS (line 120)
finished(ss) == ss.round > ROUNDS

\* Variant: an empty transcription accepted as a response.
not_text_never(text) == FALSE

\* Variant: every transcription taken for empty.
not_text_always(text) == TRUE

\* if not text (line 187)
not_text(text) == text = <<>>

\* if st.session_state.spoken_round != st.session_state.round (lines 148-150)
needs_speech(ss) == ss.spoken_round # ss.round

\* Variant: spoken_round left as it was after speaking.
mark_spoken_forgets(ss) == ss

\* st.session_state.spoken_round = st.session_state.round (line 150)
mark_spoken(ss) == [ss EXCEPT !.spoken_round = ss.round]

-----------------------------------------------------------------------------
(* One run of the script *)

\* A run that did nothing yet.
NoRun == [view        |-> "none",     \* where the run ended
          api_key     |-> NoString,   \* openai.api_key as the run set it
          error       |-> "none",     \* the st.error shown
          listing     |-> <<>>,       \* file names listed with the error
          scanned     |-> FALSE,      \* list_candidate_images was called
          picked      |-> FALSE,      \* pick_random_image was called
          image       |-> NoString,       \* the image st.image displayed
          prompt      |-> NoString,       \* the prompt text displayed
          spoke       |-> NoString,       \* the text given to speak_text
          recorder    |-> FALSE,      \* mic_recorder was rendered
          button      |-> FALSE,      \* the Start Over button was rendered
          displayed   |-> <<>>,       \* the responses written on the page
          transcribed |-> FALSE,      \* transcribe_wav_bytes was called
          result      |-> NoResult,   \* what the call did
          clicked     |-> FALSE]      \* the Start Over branch ran

SatInc(n) == IF n < MaxSpeak THEN n + 1 ELSE n

CallInc(n) == IF n < MaxCalls THEN n + 1 ELSE n

\* The counter of stored submissions stops one above ROUNDS.
SuccInc(n) == IF n <= ROUNDS THEN n + 1 ELSE n

NoSpeech == [r \in 1..ROUNDS |-> 0]

\* The run stops at a startup check (st.error, st.stop): lines 20-22, 38-53.
Halt(run, w) ==
    /\ last_run' = run
    /\ rerun' = FALSE
    /\ widget' = w
    /\ UNCHANGED <<session_state, spoken, shown, successes>>

\* The end screen (lines 120-133); ss is the session state after the defaults.
EndScreen(ss, run, w, clicked) ==
    LET page == [run EXCEPT !.view = "finished", !.button = TRUE,
                            !.displayed = ss.responses]
    IN  IF clicked
        THEN \E img \in pick_random_image :
             /\ session_state' = start_over(ss, img)
             /\ last_run' = [page EXCEPT !.picked = TRUE, !.clicked = TRUE]
             /\ rerun' = TRUE
             /\ widget' = w
             /\ spoken' = NoSpeech
             /\ shown' = {}
             /\ successes' = 0
        ELSE /\ session_state' = ss
             /\ last_run' = page
             /\ rerun' = FALSE
             /\ widget' = w
             /\ UNCHANGED <<spoken, shown, successes>>

\* The result of a run observed at st.info("Transcribing...") (line 184),
\* while the call of line 186 has not returned.
Pending == [kind |-> "pending", text |-> <<>>]

\* The round UI (lines 136-197); ss is the session state after the defaults.
\* With the result Pending this is the run up to the call of line 186.
RoundUI(ss, run, w, result) ==
    LET prompt_text == get_prompt_text(ss.round)
        titled == [run EXCEPT !.prompt = prompt_text]
    IN  IF ~avatar_opens
        THEN \* Image.open raises: the run ends with the exception on the page
             /\ session_state' = ss
             /\ last_run' = [titled EXCEPT !.view = "exception", !.prompt = NoString]
             /\ rerun' = FALSE
             /\ widget' = w
             /\ UNCHANGED <<spoken, shown, successes>>
        ELSE
        LET speaks == needs_speech(ss)
            s1     == IF speaks THEN mark_spoken(ss) ELSE ss
            page   == [titled EXCEPT !.view = "round",
                                     !.spoke = IF speaks THEN prompt_text ELSE NoString,
                                     !.recorder = TRUE,
                                     !.displayed = s1.responses]
            audio  == mic_recorder(w, ss.round)
            called == has_bytes(audio)
            pending == called /\ result = Pending
            raised == called /\ result.kind = "raise"
            text   == IF called /\ ~raised /\ ~pending
                      THEN strip(transcribe_wav_bytes(result)) ELSE <<>>
            stored == called /\ ~raised /\ ~pending /\ ~not_text(text)
        IN  /\ spoken' = IF speaks
                         THEN [spoken EXCEPT ![ss.round] = SatInc(@)]
                         ELSE spoken
            /\ shown' = shown \cup {ss.round}
            /\ successes' = IF stored THEN SuccInc(successes) ELSE successes
            /\ session_state' = IF stored THEN commit(s1, text) ELSE s1
            /\ rerun' = stored
            /\ widget' = IF w.key # ss.round THEN NoWidget
                          ELSE [w EXCEPT !.fresh = FALSE,
                                         !.calls = IF called THEN CallInc(@) ELSE @]
            /\ last_run' =
                 [page EXCEPT
                    !.view = IF pending THEN "transcribing" ELSE "round",
                    !.transcribed = called,
                    !.result = IF called THEN result ELSE NoResult,
                    !.error = CASE raised -> "transcription_error"
                                [] stored \/ pending -> "none"
                                [] called -> "empty"
                                [] OTHER -> "none"]

\* A run that passed the credential check (lines 19-22).
Keyed == [NoRun EXCEPT !.api_key = api_key]

\* The whole script, top to bottom.
Script(w, result, clicked) ==
    /\ UNCHANGED env
    /\ IF ~Truthy(api_key)
       THEN Halt([NoRun EXCEPT !.view = "stopped", !.error = "missing_key",
                               !.api_key = api_key], w)
       ELSE IF ~dir_exists
       THEN Halt([Keyed EXCEPT !.view = "stopped", !.error = "no_folder"], w)
       ELSE IF Len(candidates) = 0
       THEN Halt([Keyed EXCEPT !.view = "stopped", !.error = "no_candidates",
                               !.scanned = TRUE], w)
       ELSE IF Len(valid_images) = 0
       THEN Halt([Keyed EXCEPT !.view = "stopped", !.error = "none_decodable",
                               !.scanned = TRUE, !.listing = candidates], w)
       ELSE \E ss \in {session_defaults(session_state, img) :
                                              img \in pick_random_image} :
              LET fresh == "selected_image_path" \notin DOMAIN session_state
                  run   == [Keyed EXCEPT !.scanned = TRUE, !.picked = fresh,
                                         !.image = ss.selected_image_path]
              IN  IF finished(ss)
                  THEN EndScreen(ss, run, w, clicked)
                  ELSE RoundUI(ss, run, w, result)

-----------------------------------------------------------------------------
(* The events that make Streamlit run the script *)

\* The round the script is in when a run starts.
current_round ==
    IF "round" \in DOMAIN session_state THEN session_state.round ELSE 1

\* What the transcription may do in a run that starts with the component w:
\* it is called only if the recorder hands bytes to the run.
ResultsFor(w) ==
    IF has_bytes(mic_recorder(w, current_round)) THEN Results ELSE {NoResult}

\* A run without a widget event: the first load, a re-render, or the run
\* st.rerun() queued.
Render ==
    \E result \in ResultsFor(widget) : Script(widget, result, FALSE)

\* The user stopped a recording in the recorder the page shows; the widget
\* delivers it to this run.
Submit ==
    /\ ~rerun
    /\ last_run.recorder
    /\ \E audio \in {EmptyAudio, WavAudio} :
         LET w == Recorded(current_round, audio)
         IN  \E result \in ResultsFor(w) : Script(w, result, FALSE)

\* The user clicked the Start Over button the page shows.
StartOver ==
    /\ ~rerun
    /\ last_run.button
    /\ Script(widget, NoResult, TRUE)

\* Before the first run of a session.  Every directory is tried with a
\* credential in the secret store, and every pair of credential sources with
\* the example directory.
Init ==
    /\ secrets \in KeyValues("sk-secret")
    /\ environ \in KeyValues("sk-env")
    /\ dir_exists \in BOOLEAN
    /\ files \in Directories
    /\ dir_exists = FALSE => files = {}
    /\ case_sensitive \in BOOLEAN
    /\ \/ secrets = "sk-secret" /\ environ = NoString
       \/ dir_exists /\ files = ExampleDir /\ case_sensitive
    /\ session_state = <<>>
    /\ last_run = NoRun
    /\ rerun = FALSE
    /\ widget = NoWidget
    /\ spoken = NoSpeech
    /\ shown = {}
    /\ successes = 0

Next == Render \/ Submit \/ StartOver

Spec == Init /\ [][Next]_vars

\* The results of a transcription that returns a text with a word in it.
GoodResults == {r \in Results : r.kind = "dict" /\ strip(r.text) # <<>>}

\* The user stops a recording that the service transcribes to such a text.
SubmitGood ==
    /\ ~rerun
    /\ last_run.recorder
    /\ \E result \in GoodResults :
          Script(Recorded(current_round, WavAudio), result, FALSE)

\* The runtime executes the run st.rerun() queued, and while the recorder is
\* on the page the user eventually submits a recording whose transcription
\* succeeds with a non-empty text.
\* The sessions are those of the example directory, with the avatar and
\* without it, and a credential in the secret store.
InitFair ==
    /\ Init
    /\ secrets = "sk-secret" /\ environ = NoString
    /\ dir_exists
    /\ files \in {ExampleDir, ExampleDir \ {AVATAR}}

SpecFair ==
    InitFair /\ [][Next]_vars /\ WF_vars(Render) /\ SF_vars(SubmitGood)

-----------------------------------------------------------------------------
(* Vocabulary of the properties *)

\* The session exists: the defaults of lines 90-101 have been stored.
Started == Keys \subseteq DOMAIN session_state

InProgress == Started /\ session_state.round \in 1..ROUNDS

Finished == Started /\ session_state.round > ROUNDS

\* The text is empty or whitespace only.
Blank(t) == \A i \in 1..Len(t) : t[i] = " "

\* The step is a run in which the transcription collaborator was called and
\* raised, or returned nothing but whitespace.
FailedSubmission ==
    /\ last_run'.transcribed
    /\ \/ last_run'.result.kind \in {"raise", "no_text", "not_dict"}
       \/ last_run'.result.kind = "dict" /\ Blank(last_run'.result.text)

\* The step is a run in which the collaborator returned the text t padded
\* with whitespace only, t itself starting and ending with a letter.
SucceededWith(t) ==
    /\ last_run'.transcribed
    /\ last_run'.result.kind = "dict"
    /\ t # <<>> /\ t[1] # " " /\ t[Len(t)] # " "
    /\ \E l, r \in SeqsUpTo({" "}, MaxPad) : last_run'.result.text = l \o t \o r

\* The step is a run in which Start Over was clicked.
ResetStep == last_run'.clicked

\* The files of the directory with a png extension in any letter case that
\* decode as an image.
PngNames == {"a.png", "avatar.png", "b.png", "c.PNG", "d.Png", "e.Png"}

Decodable == {"a.png", "avatar.png", "c.PNG", "d.Png"}

MatchingFiles == files \cap PngNames

ValidCandidates == MatchingFiles \cap Decodable

-----------------------------------------------------------------------------
(* C1 *)

\* C1: in every reachable session state, round = len(responses) + 1 while the
\* session is in progress (round <= 3), the session is finished (round > 3)
\* exactly when len(responses) = 3, and len(responses) never exceeds 3.
C1_RoundCountsResponses ==
    Started =>
        /\ session_state.round >= 1
        /\ session_state.round <= ROUNDS =>
               session_state.round = Len(session_state.responses) + 1
        /\ session_state.round > ROUNDS <=> Len(session_state.responses) = 3
        /\ Len(session_state.responses) <= 3

\* The end screen of a session with three responses.
C1_Witness ==
    /\ Finished
    /\ Len(session_state.responses) = 3
    /\ last_run.view = "finished"

-----------------------------------------------------------------------------
(* C2 *)

\* C2: a submission whose transcription raises or returns empty or
\* whitespace-only text leaves round, responses, last_transcript,
\* spoken_round and the selected image as they were and the recorder is on
\* the page again for the same round; and no step appends a response without
\* advancing the round or advances the round without appending a response.
C2_FailedSubmissionChangesNothing ==
    [][ /\ FailedSubmission =>
              /\ session_state' = session_state
              /\ last_run'.recorder
              /\ ~rerun'
              /\ last_run'.error \in {"empty", "transcription_error"}
        /\ (Started /\ ~ResetStep) =>
              /\ (session_state'.responses # session_state.responses)
                   <=> (session_state'.round # session_state.round)
              /\ session_state'.responses # session_state.responses =>
                   /\ Len(session_state'.responses)
                        = Len(session_state.responses) + 1
                   /\ session_state'.round = session_state.round + 1
      ]_vars

\* Round 2 is on the page after a transcription that raised.
C2_Witness ==
    /\ InProgress
    /\ session_state.round = 2
    /\ last_run.transcribed
    /\ last_run.result.kind = "raise"
    /\ Len(session_state.responses) = 1

-----------------------------------------------------------------------------
(* C3 *)

ScenarioResponses ==
    << [round |-> 1, response |-> A_HAT],
       [round |-> 2, response |-> A_BOAT],
       [round |-> 3, response |-> A_TELESCOPE] >>

\* C3: a submission in round r whose transcription returns the non-empty
\* trimmed text t appends exactly (r, t) to responses, sets last_transcript
\* to (r, t) and moves round from r to r + 1, which is the finished state
\* when r = 3; in the scenario 'a hat', '', 'a boat', 'a telescope' the empty
\* submission leaves round at 2 and the three texts end as the responses of
\* rounds 1, 2 and 3.
C3_SuccessfulSubmissionCommits ==
    [][ /\ \A t \in {A_HAT, A_BOAT, A_TELESCOPE} :
              SucceededWith(t) =>
                 /\ session_state.round \in 1..ROUNDS
                 /\ session_state'.responses =
                        Append(session_state.responses,
                               [round |-> session_state.round, response |-> t])
                 /\ session_state'.last_transcript =
                        [round |-> session_state.round, text |-> t]
                 /\ session_state'.round = session_state.round + 1
                 /\ session_state.round = 3 => session_state'.round > ROUNDS
                 /\ session_state'.spoken_round = session_state.spoken_round
                 /\ session_state'.selected_image_path
                        = session_state.selected_image_path
        /\ ( /\ Started
             /\ session_state.responses = SubSeq(ScenarioResponses, 1, 1)
             /\ last_run'.transcribed
             /\ last_run'.result = [kind |-> "dict", text |-> <<>>] ) =>
                 /\ session_state.round = 2
                 /\ session_state'.round = 2
                 /\ session_state'.responses = session_state.responses
                 /\ last_run'.error = "empty"
        /\ ( /\ Started
             /\ session_state.responses = SubSeq(ScenarioResponses, 1, 2)
             /\ SucceededWith(A_TELESCOPE) ) =>
                 /\ session_state'.round > ROUNDS
                 /\ session_state'.responses = ScenarioResponses
      ]_vars

\* The end of the scenario.
C3_Witness ==
    /\ Finished
    /\ session_state.responses = ScenarioResponses
    /\ session_state.last_transcript = [round |-> 3, text |-> A_TELESCOPE]
    /\ last_run.transcribed

-----------------------------------------------------------------------------
(* C4 *)

\* C4: Start Over from the finished state, whatever the session went through
\* before, leaves round = 1, responses = [], spoken_round = 0,
\* last_transcript = None and a newly picked image out of the valid images;
\* the run that follows renders round 1.
C4_ResetReinitialises ==
    [][ /\ ResetStep =>
              /\ Finished
              /\ session_state'.round = 1
              /\ session_state'.responses = <<>>
              /\ session_state'.spoken_round = 0
              /\ session_state'.last_transcript = None
              /\ last_run'.picked
              /\ session_state'.selected_image_path \in ValidCandidates
              /\ DOMAIN session_state' = Keys
              /\ rerun'
        /\ (rerun /\ last_run.clicked) =>
              /\ last_run'.view = "round"
              /\ last_run'.prompt = BASE_PROMPT
              /\ session_state'.round = 1
              /\ session_state'.responses = <<>>
      ]_vars

\* Start Over has just run on a finished session.
C4_Witness ==
    /\ last_run.clicked
    /\ Len(last_run.displayed) = 3
    /\ session_state.round = 1
    /\ session_state.responses = <<>>

-----------------------------------------------------------------------------
(* C5 *)

\* C5: the prompt of a round is spoken exactly once in a play-through: in
\* the first run that renders the round (a run renders a round when it gets
\* to the prompt and the recorder) and in no later one, whatever
\* re-renders and empty or failed submissions follow; a run that finds the
\* round the last run rendered speaks nothing; the run after Start Over
\* speaks the prompt of round 1 again.
C5_SpokenOncePerRound ==
    /\ [](\A r \in 1..ROUNDS : spoken[r] = IF r \in shown THEN 1 ELSE 0)
    /\ [][ /\ ( /\ Started
                /\ last_run.view = "round"
                /\ last_run'.view = "round"
                /\ ~rerun ) => last_run'.spoke = NoString
           /\ (rerun /\ last_run'.view = "round") => last_run'.spoke # NoString
           /\ (rerun /\ last_run.clicked) => last_run'.spoke = BASE_PROMPT
         ]_vars

\* Round 2 rendered again after an empty transcription, its prompt spoken
\* once.
C5_Witness ==
    /\ InProgress
    /\ session_state.round = 2
    /\ last_run.view = "round"
    /\ last_run.error = "empty"
    /\ last_run.spoke = NoString
    /\ spoken[2] = 1
    /\ shown = {1, 2}

-----------------------------------------------------------------------------
(* C6 *)

\* C6: once round > 3, a run offers no recorder, calls no transcription and
\* speaks nothing, only Start Over changes round, responses, last_transcript
\* or spoken_round, and the finished page shows the three responses.
C6_FinishedIsTerminal ==
    [][ Finished =>
          /\ ~last_run'.recorder
          /\ ~last_run'.transcribed
          /\ last_run'.spoke = NoString
          /\ last_run'.view = "finished" =>
                /\ last_run'.button
                /\ last_run'.displayed = session_state.responses
                /\ Len(last_run'.displayed) = 3
          /\ ~ResetStep =>
                /\ session_state'.round = session_state.round
                /\ session_state'.responses = session_state.responses
                /\ session_state'.last_transcript = session_state.last_transcript
                /\ session_state'.spoken_round = session_state.spoken_round
      ]_vars

\* The finished page re-rendered.
C6_Witness ==
    /\ Finished
    /\ last_run.view = "finished"
    /\ ~last_run.transcribed
    /\ ~rerun
    /\ Len(last_run.displayed) = 3

-----------------------------------------------------------------------------
(* C7 *)

\* C7: the image is picked in the run that starts the session, every later
\* run shows that image, and no re-render or submission, successful, empty
\* or failing, changes it; only Start Over replaces it.
C7_ImagePinned ==
    [][ /\ (~Started /\ Started') =>
              /\ last_run'.picked
              /\ session_state'.selected_image_path \in ValidCandidates
        /\ (Started /\ ~ResetStep) =>
              /\ session_state'.selected_image_path
                    = session_state.selected_image_path
              /\ ~last_run'.picked
              /\ last_run'.view \in {"round", "finished"} =>
                    last_run'.image = session_state.selected_image_path
      ]_vars

\* A directory with more than one valid image, after a successful and then a
\* failing submission.
C7_Witness ==
    /\ Started
    /\ Cardinality(ValidCandidates) > 1
    /\ Len(session_state.responses) = 1
    /\ last_run.transcribed
    /\ last_run.result.kind = "raise"

-----------------------------------------------------------------------------
(* C8 *)

\* C8: the valid candidates are exactly the files of the directory whose
\* extension is the image extension in any letter case and that decode as an
\* image, is_valid_image answers false for a file that does not decode, and
\* the image picked is one of the valid candidates.
C8_ValidCandidateSet ==
    last_run.scanned =>
        /\ Range(valid_images) = ValidCandidates
        /\ \A n \in files \ Decodable : ~is_valid_image(n)
        /\ Started => session_state.selected_image_path \in ValidCandidates

-----------------------------------------------------------------------------
(* C9 *)

AssetErrors == {"no_folder", "no_candidates", "none_decodable"}

CredentialPresent == Truthy(secrets) \/ Truthy(environ)

\* C9: a run that finds no file with the image extension stops with the
\* "no candidates" error, a run that finds such files but none that decodes
\* stops with the different "none decodable" error and lists their names, a
\* run that finds no directory stops too; none of these runs creates
\* session state, picks an image or renders a round.
C9_StartupAssetErrors ==
    [][ /\ (CredentialPresent /\ ~dir_exists) => last_run'.error = "no_folder"
        /\ (CredentialPresent /\ dir_exists /\ MatchingFiles = {}) =>
              last_run'.error = "no_candidates"
        /\ ( /\ CredentialPresent /\ dir_exists
             /\ MatchingFiles # {} /\ ValidCandidates = {} ) =>
              /\ last_run'.error = "none_decodable"
              /\ Range(last_run'.listing) = MatchingFiles
        /\ last_run'.error \in AssetErrors =>
              /\ last_run'.view = "stopped"
              /\ session_state' = session_state
              /\ ~last_run'.picked
              /\ last_run'.prompt = NoString
              /\ last_run'.spoke = NoString
              /\ ~last_run'.recorder
      ]_vars

-----------------------------------------------------------------------------
(* C10 *)

\* C10: the credential is the secret store's value when that is non-empty
\* and the environment's otherwise; when neither is non-empty the run shows
\* the error and stops before the image scan, the session defaults, the
\* speech and the transcription.
C10_CredentialResolution ==
    [][ /\ Truthy(secrets) => last_run'.api_key = secrets
        /\ (~Truthy(secrets) /\ Truthy(environ)) => last_run'.api_key = environ
        /\ CredentialPresent => last_run'.error # "missing_key"
        /\ ~CredentialPresent =>
              /\ last_run'.view = "stopped"
              /\ last_run'.error = "missing_key"
              /\ ~last_run'.scanned
              /\ ~last_run'.picked
              /\ session_state' = session_state
              /\ ~Started'
              /\ last_run'.spoke = NoString
              /\ ~last_run'.recorder
              /\ ~last_run'.transcribed
              /\ ~rerun'
      ]_vars

\* A run stopped for the credential: the secret store holds an empty value
\* and the environment none.
C10_Witness ==
    /\ secrets = ""
    /\ environ = NoString
    /\ last_run.view = "stopped"
    /\ last_run.error = "missing_key"
    /\ session_state = <<>>

-----------------------------------------------------------------------------
(* C11 *)

\* C11: a recording is handed to the script in at most one run, a run
\* transcribes at most the recording it was handed and does so once, and
\* after a failed or empty result no run transcribes again until the user
\* has made a new recording.
C11_OneCallPerRecording ==
    /\ [](widget.calls <= 1)
    /\ [][ /\ last_run'.transcribed =>
                 /\ widget'.calls = 1
                 /\ widget'.audio.bytes # <<>>
                 /\ widget'.key = current_round
           /\ last_run'.recorder => ~widget'.fresh
         ]_vars

\* Round 2 rendered again after a transcription of its recording raised:
\* the recording is still in the component and was transcribed once.
C11_Witness ==
    /\ InProgress
    /\ session_state.round = 2
    /\ last_run.view = "round"
    /\ ~last_run.transcribed
    /\ widget.key = 2
    /\ widget.audio = WavAudio
    /\ widget.calls = 1

-----------------------------------------------------------------------------
(* C12 *)

IsPrefix(s, t) == Len(s) <= Len(t) /\ SubSeq(t, 1, Len(s)) = s

\* C12: between two resets every value of responses is a prefix of every
\* later one, and the i-th entry carries round number i and a text that is
\* not empty and neither starts nor ends with whitespace.
C12_ResponsesAppendOnly ==
    /\ [](Started =>
            \A i \in 1..Len(session_state.responses) :
               LET entry == session_state.responses[i]
               IN  /\ entry.round = i
                   /\ entry.response # <<>>
                   /\ entry.response[1] # " "
                   /\ entry.response[Len(entry.response)] # " ")
    /\ [][ (Started /\ ~ResetStep) =>
              IsPrefix(session_state.responses, session_state'.responses)
         ]_vars

\* Three responses collected, the last one from a padded transcription.
C12_Witness ==
    /\ Started
    /\ Len(session_state.responses) = 3
    /\ last_run.transcribed
    /\ last_run.result.text = <<" ">> \o A_BOAT \o <<" ">>

-----------------------------------------------------------------------------
(* C13 *)

GameFields(ss) == <<ss.round, ss.responses, ss.last_transcript>>

\* C13: round, responses and last_transcript change only in a run whose
\* transcription succeeded, where round grows by exactly 1, or in a reset,
\* where round returns to 1; a plain re-render, a run without a capture or
\* with a capture without bytes, an empty transcription and a failed one
\* change none of them; round decreases only by reset.
C13_NoSkip ==
    [][ Started =>
          /\ GameFields(session_state') # GameFields(session_state) =>
                \/ ResetStep /\ session_state'.round = 1
                \/ /\ \E t \in {A_HAT, A_BOAT, A_TELESCOPE} : SucceededWith(t)
                   /\ session_state'.round = session_state.round + 1
          /\ (~last_run'.transcribed /\ ~ResetStep) =>
                GameFields(session_state') = GameFields(session_state)
          /\ (widget'.audio.bytes = <<>> /\ ~ResetStep) =>
                /\ ~last_run'.transcribed
                /\ GameFields(session_state') = GameFields(session_state)
          /\ FailedSubmission =>
                GameFields(session_state') = GameFields(session_state)
          /\ session_state'.round < session_state.round => ResetStep
      ]_vars

\* Round 2 after the recorder handed over a capture without bytes.
C13_Witness ==
    /\ InProgress
    /\ session_state.round = 2
    /\ Len(session_state.responses) = 1
    /\ widget = [key |-> 2, audio |-> EmptyAudio, fresh |-> FALSE, calls |-> 0]
    /\ last_run.view = "round"

-----------------------------------------------------------------------------
(* C14 *)

\* C14: when in each round the user eventually submits a recording whose
\* transcription succeeds with non-empty text, a session that offers the
\* recorder eventually reaches the finished state, and it is finished
\* exactly when three submissions were stored since the session start or
\* the last reset, whatever number of empty or failing ones came between.
C14_EventuallyFinished ==
    /\ (last_run.recorder ~> Finished)
    /\ [](Started => (Finished <=> successes = 3))
    /\ [](successes <= 3)

\* The end screen after three stored submissions, the recorder's last
\* recording transcribed once.
C14_Witness ==
    /\ Finished
    /\ successes = 3
    /\ last_run.view = "finished"
    /\ widget.key = 3
    /\ widget.calls = 1

-----------------------------------------------------------------------------
(* C15 *)

\* C15 as stated: reset can be performed from any state of a session, so
\* also while a round of an InProgress session is on the page.
C15_ResetFromAnyState ==
    (InProgress /\ ~rerun /\ last_run.view = "round") => ENABLED <<StartOver>>_vars

\* C15, amended: reset can be performed exactly from Finished.  The Start
\* Over control is on the end screen and on no round page, a finished
\* session always offers it, and a reset always leaves InProgress(1) with
\* the four fields at their defaults and a valid image.
C15_ResetOnlyFromFinished ==
    /\ [](last_run.button <=> last_run.view = "finished")
    /\ []((InProgress /\ ~rerun) => ~ENABLED <<StartOver>>_vars)
    /\ []((Finished /\ ~rerun) => ENABLED <<StartOver>>_vars)
    /\ [][ ResetStep =>
             /\ Finished /\ InProgress'
             /\ session_state' =
                  [round |-> 1, responses |-> <<>>, spoken_round |-> 0,
                   last_transcript |-> None,
                   selected_image_path |-> session_state'.selected_image_path]
             /\ session_state'.selected_image_path \in pick_random_image
       ]_vars

\* A reset has just been performed on the end screen of three responses.
C15_Witness ==
    /\ last_run.clicked /\ rerun
    /\ InProgress /\ successes = 0
    /\ Len(last_run.displayed) = ROUNDS

-----------------------------------------------------------------------------
(* The environment changing under a running session *)

\* The states of the image directory an operator may leave behind: removed,
\* emptied, holding one file that does not decode, or the example's files.
EnvDirs ==
    { <<FALSE, {}>>, <<TRUE, {}>>, <<TRUE, {"b.png"}>>, <<TRUE, ExampleDir>> }

\* The secret store is edited between two runs; st.secrets.get reads it anew
\* in every run (line 19).
ChangeCredential ==
    /\ \E s \in KeyValues("sk-secret") : s # secrets /\ secrets' = s
    /\ UNCHANGED <<environ, dir_exists, files, case_sensitive>>
    /\ UNCHANGED <<session_state, last_run, rerun, widget, spoken, shown, successes>>

\* The image directory is changed between two runs; lines 38-43 read it anew
\* in every run.
ChangeDirectory ==
    /\ \E d \in EnvDirs :
         /\ <<d[1], d[2]>> # <<dir_exists, files>>
         /\ dir_exists' = d[1]
         /\ files' = d[2]
    /\ UNCHANGED <<secrets, environ, case_sensitive>>
    /\ UNCHANGED <<session_state, last_run, rerun, widget, spoken, shown, successes>>

InitEnv ==
    /\ Init
    /\ secrets = "sk-secret" /\ environ = NoString
    /\ dir_exists /\ files = ExampleDir /\ case_sensitive

NextEnv == Next \/ ChangeCredential \/ ChangeDirectory

SpecEnv == InitEnv /\ [][NextEnv]_vars

-----------------------------------------------------------------------------
(* C16 *)

\* A fatal condition holds of the environment: no credential in either
\* source, no image directory, no candidate file, or no candidate that
\* decodes.
Fatal ==
    \/ secrets \in {NoString, ""} /\ environ \in {NoString, ""}
    \/ ~dir_exists
    \/ Len(candidates) = 0
    \/ Len(valid_images) = 0

\* C16 as stated: once the session has rendered round 1, no later run is
\* stopped by a fatal condition, whatever became of the credential or of
\* the directory.
C16_CheckedOnceAtStartup ==
    [][ (1 \in shown) => last_run'.view # "stopped" ]_vars

\* C16, amended: the fatal conditions are checked at the start of every run
\* of the script.  A run is stopped exactly when a fatal condition holds of
\* the environment it finds, also after round 1 was rendered, and a stopped
\* run leaves the session state as it was.
C16_CheckedEveryRun ==
    [][ (env' = env /\ last_run' # last_run) =>
          /\ (last_run'.view = "stopped") <=> Fatal
          /\ (last_run'.view = "stopped") =>
                 UNCHANGED <<session_state, spoken, shown, successes>>
      ]_vars

\* A session that has stored a response is stopped by a run that finds the
\* credential gone.
C16_Witness ==
    /\ Started /\ 1 \in shown
    /\ Len(session_state.responses) >= 1
    /\ last_run.view = "stopped"
    /\ last_run.error = "missing_key"

-----------------------------------------------------------------------------
(* C17 *)

\* C17: the avatar file has no part in the game.  The prop candidates a run
\* finds are the same whether or not avatar.png is among the files of the
\* directory, and in a directory without it a session that passed the
\* startup checks has its round (or its end screen) on the page, so that
\* the round can be played.
C17_AvatarOptional ==
    /\ last_run.scanned =>
         Range(list_candidate_images(files \cup {AVATAR}, case_sensitive))
           = Range(list_candidate_images(files \ {AVATAR}, case_sensitive))
    /\ (Started /\ AVATAR \notin files) => last_run.view \in {"round", "finished"}

-----------------------------------------------------------------------------
(* The run split at the transcription call *)

\* No call is outstanding: the last run of the script ran to its end.
Quiet == last_run.view # "transcribing"

\* A run that does not reach the call: a render, or a stopped recording
\* without bytes.  Streamlit starts a run of a session only when the run
\* before it has ended.
RenderQuiet ==
    /\ Quiet
    /\ ~has_bytes(mic_recorder(widget, current_round))
    /\ Script(widget, NoResult, FALSE)

SubmitEmpty ==
    /\ Quiet /\ ~rerun /\ last_run.recorder
    /\ Script(Recorded(current_round, EmptyAudio), NoResult, FALSE)

StartOverQuiet == Quiet /\ StartOver

\* The user stopped a recording with bytes: the run goes down to line 186
\* and calls the service.
IssueCall ==
    /\ Quiet /\ ~rerun /\ last_run.recorder
    /\ Script(Recorded(current_round, WavAudio), Pending, FALSE)

\* The call returns or raises, and the run goes on from line 186 to its end
\* (lines 186-197).
ReturnCall ==
    /\ ~Quiet
    /\ \E result \in Results :
         LET raised == result.kind = "raise"
             text   == IF raised THEN <<>>
                       ELSE strip(transcribe_wav_bytes(result))
             stored == ~raised /\ ~not_text(text)
         IN  /\ session_state' = IF stored THEN commit(session_state, text)
                                 ELSE session_state
             /\ successes' = IF stored THEN SuccInc(successes) ELSE successes
             /\ rerun' = stored
             /\ last_run' =
                  [last_run EXCEPT
                     !.view = "round",
                     !.result = result,
                     !.error = CASE raised -> "transcription_error"
                                 [] stored -> "none"
                                 [] OTHER  -> "empty"]
             /\ UNCHANGED <<widget, spoken, shown>>
    /\ UNCHANGED env

InitWait ==
    /\ Init
    /\ secrets = "sk-secret" /\ environ = NoString
    /\ dir_exists /\ files = ExampleDir

NextWait ==
    RenderQuiet \/ SubmitEmpty \/ StartOverQuiet \/ IssueCall \/ ReturnCall

SpecWait == InitWait /\ [][NextWait]_vars

-----------------------------------------------------------------------------
(* C18 *)

-----------------------------------------------------------------------------
(* C19 *)

\* C19: in every reachable state of a session, last_transcript is None
\* exactly when responses is empty, and otherwise it holds the round number
\* and the text of the last entry of responses.
C19_LastTranscriptAgrees ==
    Started =>
        LET responses == session_state.responses
            last      == responses[Len(responses)]
        IN  /\ (session_state.last_transcript = None) <=> (responses = <<>>)
            /\ responses # <<>> =>
                 /\ session_state.last_transcript.round = last.round
                 /\ session_state.last_transcript.text = last.response

\* The run that stored the first response of a game has just ended.
C19_Witness ==
    /\ Started
    /\ Len(session_state.responses) = 1
    /\ session_state.last_transcript.round = 1
    /\ session_state.selected_image_path = "c.PNG"
    /\ successes = 1 /\ rerun
    /\ last_run.displayed = <<>>

-----------------------------------------------------------------------------
(* C20 *)

\* C20: the prompt a run shows is decided by the round number the run
\* starts in and by nothing else: round 1 shows the base prompt, rounds 2
\* and 3 show the base prompt with a positive acknowledgment put in front.
\* When the prompt is spoken it is the prompt shown, and the text of the
\* prompt decides nothing of the session: round 3 has its prompt spoken
\* although round 2 spoke the same text, and what the run stores as
\* spoken_round is the round number.
C20_PromptKeyedByRound ==
    [][ last_run'.view = "round" =>
          /\ last_run'.prompt =
               CASE current_round = 1 -> "What else can this be?"
                 [] current_round \in 2..ROUNDS ->
                      "Great job! " \o "What else can this be?"
          /\ last_run'.spoke \in {NoString, last_run'.prompt}
          /\ (current_round \notin shown) => last_run'.spoke = last_run'.prompt
          /\ session_state'.spoken_round = current_round
      ]_vars

\* Round 3 on the page, its prompt just spoken, the same text as round 2's.
C20_Witness ==
    /\ last_run.view = "round"
    /\ session_state.round = 3
    /\ last_run.prompt = NEXT_PROMPT
    /\ last_run.spoke = NEXT_PROMPT
    /\ spoken = [r \in 1..ROUNDS |-> 1]

====
